---- MODULE Spec2Model ----
(***************************************************************************)
(* A model of rantanplan's metrical scansion core (rantanplan/core.py):    *)
(* stress assignment, liaison marking, the phonological group reducer, the *)
(* rhythm deriver and the candidate search of get_scansion.                *)
(*                                                                         *)
(* Representation.  A Python str is a sequence of characters, a character  *)
(* a one-element string; accented letters are written with a mark after    *)
(* the letter ("a'" is a-acute, "u:" is u-diaeresis).  A Python dict is a  *)
(* function whose DOMAIN is its set of keys, so that an absent key is      *)
(* absent here too.  A Python list is a sequence (1-based here, the values *)
(* the code stores, such as boundary indices, keep the code's 0-based      *)
(* arithmetic).                                                            *)
(***************************************************************************)
EXTENDS Integers, Sequences, FiniteSets, TLC

VARIABLES
    pc,             \* position of the operation under study
    call,           \* arguments of a pure function under study
    ret,            \* what that function returned (or raised)
    tokens,         \* get_scansion: the tokens of the line
    structure_length, \* get_scansion: <<>> for None, <<T>> for a target T
    rhythm_format,  \* get_scansion: "pattern", "binary" or "indexed"
    line,           \* get_scansion: the line's dict
    cursor,         \* generate_phonological_groups: the loop variables
    yielded,        \* number of candidates the driver has requested
    exc             \* the exception that left get_scansion, or "none"

vars == <<pc, call, ret, tokens, structure_length, rhythm_format, line,
          cursor, yielded, exc>>

-----------------------------------------------------------------------------
(* Bounds of the model. *)

MaxTokens == 2
MaxTarget == 6
MaxGroups == 5
MaxWords == 3
MaxPhrase == 2

-----------------------------------------------------------------------------
(* Python helpers. *)

NoValue == "None"

Get(d, k, default) == IF k \in DOMAIN d THEN d[k] ELSE default

Put(d, k, v) == [x \in (DOMAIN d) \cup {k} |-> IF x = k THEN v ELSE d[x]]

Last(s) == s[Len(s)]

RECURSIVE Concat(_)
Concat(ss) == IF ss = <<>> THEN <<>> ELSE Head(ss) \o Concat(Tail(ss))

RECURSIVE Sum(_)
Sum(s) == IF s = <<>> THEN 0 ELSE Head(s) + Sum(Tail(s))

UpperToLower ==
    [c \in {"A", "E", "I", "O", "U", "A'", "E'", "I'", "O'", "U'", "U:",
            "Y", "H", "L", "R", "S"} |->
        CASE c = "A" -> "a" [] c = "E" -> "e" [] c = "I" -> "i"
          [] c = "O" -> "o" [] c = "U" -> "u" [] c = "A'" -> "a'"
          [] c = "E'" -> "e'" [] c = "I'" -> "i'" [] c = "O'" -> "o'"
          [] c = "U'" -> "u'" [] c = "U:" -> "u:" [] c = "Y" -> "y"
          [] c = "H" -> "h" [] c = "L" -> "l" [] c = "R" -> "r"
          [] c = "S" -> "s"]

LowerChar(c) == IF c \in DOMAIN UpperToLower THEN UpperToLower[c] ELSE c

Lower(text) == [i \in 1..Len(text) |-> LowerChar(text[i])]

-----------------------------------------------------------------------------
(* Module constants of core.py. *)

STRONG_VOWELS == {"a", "e", "o", "a'", "e'", "o'", "A'", "E'", "O'", "A", "E", "O"}

WEAK_VOWELS == {"i", "u", "u:", "i'", "u'", "I", "I'", "U", "U:", "U'"}

LIAISON_FIRST_PART ==
    {"a", "e", "i", "o", "u", "a'", "e'", "i'", "o'", "u'",
     "A", "E", "I", "O", "U", "A'", "E'", "I'", "O'", "U'", "y", "Y"}

LIAISON_SECOND_PART ==
    {"a", "e", "i", "o", "u", "a'", "e'", "i'", "o'", "u'",
     "A", "E", "I", "O", "U", "A'", "E'", "I'", "O'", "U'", "h", "y", "Y", "H"}

STRESSED_UNACCENTED_MONOSYLLABLES ==
    { <<"y","o">>, <<"v","i","o">>, <<"d","i","o">>, <<"f","e">>,
      <<"s","o","l">>, <<"t","i">>, <<"u","n">> }

UNSTRESSED_UNACCENTED_MONOSYLLABLES ==
    { <<"d","e">>, <<"e","l">>, <<"l","a">>, <<"l","a","s">>, <<"l","e">>,
      <<"l","e","s">>, <<"l","o">>, <<"l","o","s">>, <<"m","a","s">>,
      <<"m","e">>, <<"m","i">>, <<"n","o","s">>, <<"o","s">>,
      <<"q","u","e">>, <<"s","e">>, <<"s","i">>, <<"s","u">>,
      <<"t","a","n">>, <<"t","e">>, <<"t","u">>, <<"t","u","s">>,
      <<"o","h">> }

POSSESSIVE_PRON ==
    { <<"m","i'","o">>, <<"m","i'","a">>, <<"m","i'","o","s">>,
      <<"m","i'","a","s">>, <<"t","u","y","o">>, <<"t","u","y","a">>,
      <<"t","u","y","o","s">>, <<"t","u","y","a","s">>,
      <<"s","u","y","o">>, <<"s","u","y","a">>, <<"s","u","y","o","s">>,
      <<"s","u","y","a","s">> }

POSSESSIVE_PRON_UNSTRESSED ==
    { <<"n","u","e","s","t","r","o">>, <<"n","u","e","s","t","r","a">>,
      <<"n","u","e","s","t","r","o","s">>, <<"n","u","e","s","t","r","a","s">>,
      <<"v","u","e","s","t","r","o">>, <<"v","u","e","s","t","r","a">>,
      <<"v","u","e","s","t","r","o","s">>, <<"v","u","e","s","t","r","a","s">> }

\* accents_re = [aeiou-acute], re.I
AccentedChars == {"a'", "e'", "i'", "o'", "u'", "A'", "E'", "I'", "O'", "U'"}

UnaccentedVowelChars == {"a", "e", "i", "o", "u", "A", "E", "I", "O", "U"}

\* paroxytone_re = ([aeiou]|n|[aeiou]s)$, re.I, searched in the last syllable
paroxytone_re(text) ==
    /\ Len(text) >= 1
    /\ \/ Last(text) \in UnaccentedVowelChars
       \/ Last(text) \in {"n", "N"}
       \/ /\ Last(text) \in {"s", "S"}
          /\ Len(text) >= 2
          /\ text[Len(text) - 1] \in UnaccentedVowelChars

-----------------------------------------------------------------------------
(* Tokens.  A token carries what the annotation pipeline and the static    *)
(* tables supply for it: is_alpha, text, pos, the morphology map tag, the  *)
(* syllables the cluster scan of syllabify cuts its text into (syl) and    *)
(* the syllabification ALTERNATIVE_SYLLABIFICATION registers for it (alt,  *)
(* <<>> when the table has no entry).                                      *)

Word(syl, alt, pos, tag) ==
    [is_alpha |-> TRUE, text |-> Concat(syl), syl |-> syl, alt |-> alt,
     pos |-> pos, tag |-> tag]

Symbol(text) == [is_alpha |-> FALSE, text |-> text]

NoTag == [k \in {} |-> ""]

\* The tail of syllabify: the registered alternative when asked for and
\* present, the cluster scan's syllables otherwise.
syllabify(word, alternative_syllabification) ==
    IF alternative_syllabification /\ word.alt # <<>>
    THEN word.alt
    ELSE word.syl

\* Index (0-based) of the first element of syllable_list that holds an
\* accented vowel; -1 stands for None.
get_orthographic_accent(syllable_list) ==
    LET hits == {i \in 1..Len(syllable_list) :
                    \E j \in 1..Len(syllable_list[i]) :
                        syllable_list[i][j] \in AccentedChars}
    IN IF hits = {} THEN -1
       ELSE (CHOOSE i \in hits : \A j \in hits : i <= j) - 1

\* is_paroxytone hands get_orthographic_accent the joined str, whose
\* elements are its characters; `not position` is true of None and of 0.
is_paroxytone(syllables) ==
    LET joined == Concat(syllables)
        chars == [i \in 1..Len(joined) |-> <<joined[i]>>]
        position == get_orthographic_accent(chars)
    IN IF position = -1 \/ position = 0
       THEN paroxytone_re(syllables[Len(syllables)])
       ELSE FALSE

HasSinaeresis(first_syllable, second_syllable) ==
    /\ first_syllable # <<>>
    /\ second_syllable # <<>>
    /\ \/ Last(first_syllable) \in STRONG_VOWELS /\ second_syllable[1] \in STRONG_VOWELS
       \/ Last(first_syllable) \in WEAK_VOWELS /\ second_syllable[1] \in STRONG_VOWELS
       \/ Last(first_syllable) \in STRONG_VOWELS /\ second_syllable[1] \in WEAK_VOWELS

\* Mutant of MonosyllableStressed: membership in the unstressed set no
\* longer decides alone, a listed part of speech stresses the word anyway.
MonosyllableStressedAnyway(first_monosyllable, word_lower, pos, tag) ==
    \/ first_monosyllable \notin UNSTRESSED_UNACCENTED_MONOSYLLABLES
    \/ first_monosyllable \in STRESSED_UNACCENTED_MONOSYLLABLES
    \/ pos \in {"PROPN", "NUM", "NOUN", "VERB", "AUX", "ADV"}

MonosyllableStressed(first_monosyllable, word_lower, pos, tag) ==
    /\ first_monosyllable \notin UNSTRESSED_UNACCENTED_MONOSYLLABLES
    /\ \/ first_monosyllable \in STRESSED_UNACCENTED_MONOSYLLABLES
       \/ pos \notin {"SCONJ", "CCONJ", "DET", "PRON", "ADP"}
       \/ (pos = "PRON" /\ Get(tag, "Case", NoValue) = "Nom")
       \/ (pos = "DET" /\ Get(tag, "Definite", NoValue) \in {"Dem", "Ind"})
       \/ pos \in {"PROPN", "NUM", "NOUN", "VERB", "AUX", "ADV"}
       \/ (pos = "ADJ" /\ Get(tag, "Poss", NoValue) # "Yes")
       \/ (pos = "PRON" /\ Get(tag, "PronType", NoValue) \in {"Prs", "Ind"})
       \/ (pos = "DET" /\ Get(tag, "PronType", NoValue) = "Ind")
       \* pos in ("ADJ", "DET" and <bool>): the second element is a bool,
       \* which no pos equals
       \/ pos = "ADJ"
       \/ (pos \in {"PRON", "DET"}
           /\ Get(tag, "PronType", NoValue) \in {"Exc", "Int", "Dem"})
       \/ word_lower \in POSSESSIVE_PRON

PolysyllableStressed(word_lower, pos, tag) ==
    \/ pos \in {"INTJ", "PROPN", "NUM", "NOUN", "VERB", "AUX", "ADV"}
    \/ (pos = "ADJ" /\ word_lower \notin POSSESSIVE_PRON_UNSTRESSED)
    \/ (pos = "PRON" /\ Get(tag, "PronType", NoValue) \in {"Prs", "Ind"})
    \/ (pos = "DET" /\ Get(tag, "PronType", NoValue) \in {"Dem", "Ind"})
    \/ (pos = "DET" /\ Get(tag, "Definite", NoValue) = "Ind")
    \/ (pos = "PRON" /\ Get(tag, "Poss", NoValue) = "Yes")
    \/ (pos \in {"PRON", "DET"}
        /\ Get(tag, "PronType", NoValue) \in {"Exc", "Int", "Dem"})
    \/ word_lower \in POSSESSIVE_PRON

StressedPosition(syllable_list, word_lower, pos, tag) ==
    IF Len(syllable_list) = 1
    THEN IF MonosyllableStressed(Lower(syllable_list[1]), word_lower, pos, tag)
         THEN -1
         ELSE 0
    ELSE IF PolysyllableStressed(word_lower, pos, tag)
         THEN LET tilde == get_orthographic_accent(syllable_list)
              IN IF tilde # -1 THEN -(Len(syllable_list) - tilde)
                 ELSE IF is_paroxytone(syllable_list) THEN -2
                 ELSE -1
         ELSE 0

\* Mutant of OutSyllable: the distance from the end is off by one.
OutSyllableOffByOne(syllable_list, index, stressed_position) ==
    [syllable |-> syllable_list[index + 1],
     is_stressed |-> (Len(syllable_list) - index - 1 = -stressed_position)]

\* The dict of the syllable at `index` (0-based).
OutSyllable(syllable_list, index, stressed_position) ==
    LET base == [syllable |-> syllable_list[index + 1],
                 is_stressed |-> (Len(syllable_list) - index = -stressed_position)]
    IN IF /\ index + 1 < Len(syllable_list)
          /\ HasSinaeresis(syllable_list[index + 1], syllable_list[index + 2])
       THEN Put(base, "has_sinaeresis", TRUE)
       ELSE base

\* The dict get_word_stress returns, once stressed_position is known.
StressedWord(syllable_list, stressed_position) ==
    [word |-> [i \in 1..Len(syllable_list) |->
                  OutSyllable(syllable_list, i - 1, stressed_position)],
     stress_position |-> stressed_position]

get_word_stress(word, pos, tag, alternative_syllabification) ==
    StressedWord(syllabify(word, alternative_syllabification),
                 StressedPosition(syllabify(word, alternative_syllabification),
                                  Lower(word.text), pos, tag))

-----------------------------------------------------------------------------
(* Liaison marker and group reducer. *)

\* Mutant of have_prosodic_liaison: a consonantal "y" does not block.
have_prosodic_liaison_any_y(first_syllable, second_syllable) ==
    /\ Last(first_syllable.syllable) \in LIAISON_FIRST_PART
    /\ second_syllable.syllable[1] \in LIAISON_SECOND_PART

have_prosodic_liaison(first_syllable, second_syllable) ==
    IF /\ LowerChar(second_syllable.syllable[1]) = "y"
       /\ Len(second_syllable.syllable) > 1
       /\ LowerChar(second_syllable.syllable[2]) \in
              {"a", "e", "i", "o", "u", "a'", "e'", "i'", "u'", "o'"}
    THEN FALSE
    ELSE /\ Last(first_syllable.syllable) \in LIAISON_FIRST_PART
         /\ second_syllable.syllable[1] \in LIAISON_SECOND_PART

\* f"has_{liaison_type}" and f"{liaison_type}_index"
LiaisonProperty(liaison_type) ==
    IF liaison_type = "synalepha" THEN "has_synalepha" ELSE "has_sinaeresis"

IndexKey(liaison_type) ==
    IF liaison_type = "synalepha" THEN "synalepha_index" ELSE "sinaeresis_index"

break_on_h(liaison_type, syllable_left, syllable_right) ==
    /\ liaison_type = "synalepha"
    /\ LowerChar(syllable_right.syllable[1]) = "h"

\* breakage_func is "break_on_h" or "None"
Breakage(breakage_func, liaison_type, syllable, next_syllable) ==
    /\ breakage_func # "None"
    /\ break_on_h(liaison_type, syllable, next_syllable)

\* The local next_syllable before its first assignment.
Unbound == [unbound |-> TRUE]

\* [int(syllable.get(liaison_property, 0)) for syllable in syllables]
DefaultPositions(syllables, liaison_type) ==
    [i \in 1..Len(syllables) |->
        IF Get(syllables[i], LiaisonProperty(liaison_type), FALSE) THEN 1 ELSE 0]

\* Mutant of Liaison: the two texts are joined in the wrong order.
LiaisonSwapped(syllable, next_syllable, liaison_type) ==
    [syllable |-> next_syllable.syllable \o syllable.syllable,
     is_stressed |-> (syllable.is_stressed \/ next_syllable.is_stressed)]

\* Mutant of Liaison: the merged dict takes the stress of the second
\* syllable alone.
LiaisonLastStress(syllable, next_syllable, liaison_type) ==
    LET d0 == [syllable |-> syllable.syllable \o next_syllable.syllable,
               is_stressed |-> next_syllable.is_stressed]
    IN IF "is_word_end" \in DOMAIN next_syllable
       THEN Put(d0, "is_word_end", next_syllable["is_word_end"])
       ELSE d0

\* The dict `liaison` the merge branch builds.  The append to boundary_index
\* also changes the list held by `syllable`, a dict no later read reaches.
Liaison(syllable, next_syllable, liaison_type) ==
    LET boundary_index == Append(Get(syllable, IndexKey(liaison_type), <<>>),
                                 Len(syllable.syllable) - 1)
        d0 == [syllable |-> syllable.syllable \o next_syllable.syllable,
               is_stressed |-> (syllable.is_stressed \/ next_syllable.is_stressed)]
        d1 == Put(d0, IndexKey(liaison_type), boundary_index)
        d2 == IF LiaisonProperty(liaison_type) \in DOMAIN next_syllable
              THEN Put(d1, LiaisonProperty(liaison_type),
                       next_syllable[LiaisonProperty(liaison_type)])
              ELSE d1
    IN IF "is_word_end" \in DOMAIN next_syllable
       THEN Put(d2, "is_word_end", next_syllable["is_word_end"])
       ELSE d2

\* The locals that live across the passes of the while loop.
ScanStart ==
    [reduced_syllables |-> <<>>, liaison_index |-> <<>>, skip_next |-> FALSE,
     next_syllable |-> Unbound, exc |-> "none", merges |-> 0, passes |-> 0]

\* Mutant of ForLoop: a merge does not set skip_next, so the syllable it
\* consumed is visited again.
RECURSIVE ForLoopNoSkip(_, _, _, _, _, _)
ForLoopNoSkip(syllables, liaison_positions, liaison_type, breakage_func, idx, st) ==
    IF idx >= Len(syllables) THEN st
    ELSE IF /\ idx < Len(syllables) - 1
            /\ liaison_positions[idx + 1] # 0
            /\ ~Breakage(breakage_func, liaison_type, syllables[idx + 1],
                         syllables[idx + 2])
    THEN ForLoopNoSkip(syllables, liaison_positions, liaison_type,
                       breakage_func, idx + 1,
                       [st EXCEPT
                          !.reduced_syllables =
                              Append(@, Liaison(syllables[idx + 1],
                                                syllables[idx + 2],
                                                liaison_type)),
                          !.liaison_index = Append(@, liaison_positions[idx + 2]),
                          !.merges = @ + 1])
    ELSE ForLoopNoSkip(syllables, liaison_positions, liaison_type,
                       breakage_func, idx + 1,
                       [st EXCEPT
                          !.reduced_syllables = Append(@, syllables[idx + 1]),
                          !.liaison_index = Append(@, 0)])

\* One pass of `for idx, syllable in enumerate(syllables)`, from idx (0-based).
RECURSIVE ForLoop(_, _, _, _, _, _)
ForLoop(syllables, liaison_positions, liaison_type, breakage_func, idx, st) ==
    IF idx >= Len(syllables) \/ st.exc # "none" THEN st
    ELSE IF st.skip_next
    THEN ForLoop(syllables, liaison_positions, liaison_type, breakage_func,
                 idx + 1, [st EXCEPT !.skip_next = FALSE])
    ELSE
      LET syllable == syllables[idx + 1]
          has_next == idx < Len(syllables) - 1
          next_syllable == IF has_next THEN syllables[idx + 2]
                           ELSE st.next_syllable
          breakage == /\ has_next
                      /\ Breakage(breakage_func, liaison_type, syllable,
                                  next_syllable)
          st1 == [st EXCEPT !.next_syllable = next_syllable]
      IN IF idx >= Len(liaison_positions)
         THEN [st1 EXCEPT !.exc = "IndexError"]
         ELSE IF liaison_positions[idx + 1] # 0 /\ ~breakage
         THEN IF "unbound" \in DOMAIN next_syllable
              THEN [st1 EXCEPT !.exc = "UnboundLocalError"]
              ELSE IF idx + 1 >= Len(liaison_positions)
              THEN [st1 EXCEPT !.exc = "IndexError"]
              ELSE ForLoop(syllables, liaison_positions, liaison_type,
                           breakage_func, idx + 1,
                           [st1 EXCEPT
                              !.reduced_syllables =
                                  Append(@, Liaison(syllable, next_syllable,
                                                    liaison_type)),
                              !.liaison_index =
                                  Append(@, liaison_positions[idx + 2]),
                              !.skip_next = TRUE,
                              !.merges = @ + 1])
         ELSE ForLoop(syllables, liaison_positions, liaison_type,
                      breakage_func, idx + 1,
                      [st1 EXCEPT
                         !.reduced_syllables = Append(@, syllable),
                         !.liaison_index = Append(@, 0)])

\* One iteration of the while loop's body.
ScanPass(syllables, liaison_positions, liaison_type, breakage_func, st) ==
    LET r == ForLoop(syllables, liaison_positions, liaison_type,
                     breakage_func, 0,
                     [st EXCEPT !.reduced_syllables = <<>>,
                                !.liaison_index = <<>>])
    IN [r EXCEPT !.passes = @ + 1]

\* while sum(liaison_positions) > 0: the locals when the loop is left,
\* with what was raised in exc.
RECURSIVE WhileLoop(_, _, _, _, _)
\* The loop after a pass that left the locals r.
AfterPass(liaison_type, breakage_func, r) ==
    IF r.exc # "none" THEN r
    ELSE WhileLoop(r.reduced_syllables, r.liaison_index, liaison_type,
                   breakage_func, r)

WhileLoop(syllables, liaison_positions, liaison_type, breakage_func, st) ==
    IF Sum(liaison_positions) <= 0
    THEN [st EXCEPT !.reduced_syllables = syllables,
                    !.liaison_index = liaison_positions]
    ELSE AfterPass(liaison_type, breakage_func,
                   ScanPass(syllables, liaison_positions, liaison_type,
                            breakage_func, st))

\* The values sum(liaison_positions) takes each time the while loop tests
\* it, up to the test that leaves the loop or the pass that raises.
RECURSIVE EligibleCounts(_, _, _, _, _)
EligibleAfter(liaison_type, breakage_func, r) ==
    IF r.exc # "none" THEN <<>>
    ELSE EligibleCounts(r.reduced_syllables, r.liaison_index, liaison_type,
                        breakage_func, r)

EligibleCounts(syllables, liaison_positions, liaison_type, breakage_func, st) ==
    IF Sum(liaison_positions) <= 0
    THEN <<Sum(liaison_positions)>>
    ELSE <<Sum(liaison_positions)>>
         \o EligibleAfter(liaison_type, breakage_func,
                          ScanPass(syllables, liaison_positions, liaison_type,
                                   breakage_func, st))

\* Mutant of clean_phonological_groups: the groups are returned as they are.
clean_nothing(groups, liaison_positions, liaison_property) == groups

clean_phonological_groups(groups, liaison_positions, liaison_property) ==
    [i \in 1..Len(groups) |->
        IF liaison_property \in DOMAIN groups[i]
        THEN Put(groups[i], liaison_property, liaison_positions[i] # 0)
        ELSE groups[i]]

\* The return statement of get_phonological_groups, w the locals the while
\* loop left (syllables in reduced_syllables, liaison_positions in
\* liaison_index).  The result is [exc, groups, merges, passes]: what was
\* raised ("none" if nothing), the list returned, and how many merges and
\* passes the loop made.
Return(w, liaison_property) ==
    IF w.exc # "none"
    THEN [exc |-> w.exc, groups |-> <<>>, merges |-> w.merges,
          passes |-> w.passes]
    ELSE IF \E i \in 1..Len(w.reduced_syllables) :
               /\ liaison_property \in DOMAIN w.reduced_syllables[i]
               /\ i > Len(w.liaison_index)
    THEN [exc |-> "IndexError", groups |-> <<>>, merges |-> w.merges,
          passes |-> w.passes]
    ELSE [exc |-> "none",
          groups |-> clean_phonological_groups(
                         w.reduced_syllables, w.liaison_index,
                         liaison_property),
          merges |-> w.merges, passes |-> w.passes]

\* get_phonological_groups with liaison_positions given.
get_phonological_groups(word_syllables, liaison_type, breakage_func, liaison_positions) ==
    Return(WhileLoop(word_syllables, liaison_positions, liaison_type,
                     breakage_func, ScanStart),
           LiaisonProperty(liaison_type))

\* get_phonological_groups with liaison_positions=None
get_phonological_groups_default(word_syllables, liaison_type, breakage_func) ==
    get_phonological_groups(word_syllables, liaison_type, breakage_func,
                            DefaultPositions(word_syllables, liaison_type))

-----------------------------------------------------------------------------
(* Rhythm deriver. *)

\* Mutant of get_stresses: the final slot is dropped already when the last
\* stressed group is the penultimate one.
get_stresses_early_pop(phonological_groups) ==
    LET stresses == [i \in 1..Len(phonological_groups) |->
                        phonological_groups[i].is_stressed]
        hits == {i \in 1..Len(stresses) : stresses[i]}
    IN IF hits = {}
       THEN [exc |-> "ValueError", stresses |-> <<>>]
       ELSE IF stresses[Len(stresses)]
       THEN [exc |-> "none", stresses |-> Append(stresses, FALSE)]
       ELSE [exc |-> "none",
             stresses |-> SubSeq(stresses, 1, Len(stresses) - 1)]

\* [exc, stresses]: ValueError is list.index(True) finding no True.
get_stresses(phonological_groups) ==
    LET stresses == [i \in 1..Len(phonological_groups) |->
                        phonological_groups[i].is_stressed]
        hits == {i \in 1..Len(stresses) : stresses[i]}
    IN IF hits = {}
       THEN [exc |-> "ValueError", stresses |-> <<>>]
       ELSE LET last == CHOOSE i \in hits : \A j \in hits : j <= i
                last_stress == -((Len(stresses) - last) + 1)
            IN [exc |-> "none",
                stresses |->
                    IF last_stress = -1 THEN Append(stresses, FALSE)
                    ELSE IF last_stress <= -3
                    THEN SubSeq(stresses, 1, Len(stresses) - 1)
                    ELSE stresses]

Digit(d) ==
    CASE d = 0 -> "0" [] d = 1 -> "1" [] d = 2 -> "2" [] d = 3 -> "3"
      [] d = 4 -> "4" [] d = 5 -> "5" [] d = 6 -> "6" [] d = 7 -> "7"
      [] d = 8 -> "8" [] d = 9 -> "9"

\* str(n) for n >= 0
RECURSIVE Str(_)
Str(n) == IF n < 10 THEN <<Digit(n)>> ELSE Str(n \div 10) \o <<Digit(n % 10)>>

\* separator.join(items), items a list of str
RECURSIVE Join(_, _)
Join(separator, items) ==
    IF items = <<>> THEN <<>>
    ELSE IF Len(items) = 1 THEN items[1]
    ELSE items[1] \o separator \o Join(separator, Tail(items))

\* [str(index + 1) for index, stress in enumerate(stresses) if stress]
RECURSIVE IndexedItems(_, _)
IndexedItems(stresses, index) ==
    IF index >= Len(stresses) THEN <<>>
    ELSE (IF stresses[index + 1] THEN <<Str(index + 1)>> ELSE <<>>)
         \o IndexedItems(stresses, index + 1)

format_stress(stresses, fmt, indexed_separator) ==
    IF fmt = "indexed"
    THEN Join(indexed_separator, IndexedItems(stresses, 0))
    ELSE IF fmt = "binary"
    THEN Join(<<>>, [i \in 1..Len(stresses) |->
                        Str(IF stresses[i] THEN 1 ELSE 0)])
    ELSE Join(<<>>, [i \in 1..Len(stresses) |->
                        IF stresses[i] THEN <<"+">> ELSE <<"-">>])

\* The default of format_stress's indexed_separator parameter.
DefaultIndexedSeparator == <<"-">>

\* The dict get_rhythmical_pattern builds from what get_stresses gave.
RhythmOf(r, fmt) ==
    IF r.exc # "none"
    THEN [exc |-> r.exc]
    ELSE [exc |-> "none",
          rhythm |-> [stress |-> format_stress(r.stresses, fmt,
                                               DefaultIndexedSeparator),
                      type |-> fmt,
                      length |-> Len(r.stresses)]]

\* [exc, rhythm]
get_rhythmical_pattern(phonological_groups, fmt) ==
    RhythmOf(get_stresses(phonological_groups), fmt)

-----------------------------------------------------------------------------
(* Words of a line. *)

\* Index of the last element of token_list that is a word, 0 if there is
\* none (get_last_syllable then returns None).
LastWordIndex(token_list) ==
    LET ws == {i \in 1..Len(token_list) : "word" \in DOMAIN token_list[i]}
    IN IF ws = {} THEN 0 ELSE CHOOSE i \in ws : \A j \in ws : j <= i

get_last_syllable(token_list) ==
    LET k == LastWordIndex(token_list)
    IN IF k = 0 THEN NoValue ELSE Last(token_list[k].word)

\* first_syllable.update({'has_synalepha': True}) on the dict that
\* get_last_syllable returned, which the list still holds.
MarkSynalepha(syllabified_words) ==
    LET k == LastWordIndex(syllabified_words)
        w == syllabified_words[k].word
    IN [syllabified_words EXCEPT
           ![k].word = [w EXCEPT ![Len(w)] = Put(w[Len(w)], "has_synalepha", TRUE)]]

\* The synalepha test of get_words and the append of the new word.
AppendWord(syllabified_words, stressed_word) ==
    Append(IF /\ LastWordIndex(syllabified_words) # 0
              /\ have_prosodic_liaison(get_last_syllable(syllabified_words),
                                       stressed_word.word[1])
           THEN MarkSynalepha(syllabified_words)
           ELSE syllabified_words,
           stressed_word)

\* The body of get_words's loop for the tokens from i (1-based) on.  A token
\* holds pos and tag as get_words has them after splitting tag_ and calling
\* spacy_tag_to_dict.
RECURSIVE GetWordsLoop(_, _, _, _)
GetWordsLoop(word_list, alternative_syllabification, syllabified_words, i) ==
    IF i > Len(word_list) THEN syllabified_words
    ELSE GetWordsLoop(
             word_list, alternative_syllabification,
             IF word_list[i].is_alpha
             THEN AppendWord(syllabified_words,
                             get_word_stress(word_list[i], word_list[i].pos,
                                             word_list[i].tag,
                                             alternative_syllabification))
             ELSE Append(syllabified_words, [symbol |-> word_list[i].text]),
             i + 1)

get_words(word_list, alternative_syllabification) ==
    GetWordsLoop(word_list, alternative_syllabification, <<>>, 1)

WordEndSyllables(word) ==
    [i \in 1..Len(word) |->
        IF i = Len(word) THEN Put(word[i], "is_word_end", TRUE) ELSE word[i]]

\* The words after get_syllables_word_end ran over them: it sets is_word_end
\* on the dicts the words hold.
MarkedWordEnds(words) ==
    [i \in 1..Len(words) |->
        IF "symbol" \in DOMAIN words[i] THEN words[i]
        ELSE [words[i] EXCEPT !.word = WordEndSyllables(@)]]

RECURSIVE get_syllables_word_end(_)
get_syllables_word_end(words) ==
    IF words = <<>> THEN <<>>
    ELSE IF "symbol" \in DOMAIN Head(words)
    THEN get_syllables_word_end(Tail(words))
    ELSE WordEndSyllables(Head(words).word)
             \o get_syllables_word_end(Tail(words))

-----------------------------------------------------------------------------
(* Candidate search. *)

\* Mutant of Product: product([0, 1], repeat=k), all-off first.
RECURSIVE ProductOffFirst(_)
ProductOffFirst(k) ==
    IF k = 0 THEN << <<>> >>
    ELSE LET rest == ProductOffFirst(k - 1)
         IN [i \in 1..(2 * Len(rest)) |->
                IF i <= Len(rest) THEN <<0>> \o rest[i]
                ELSE <<1>> \o rest[i - Len(rest)]]

\* list(product([1, 0], repeat=k))
RECURSIVE Product(_)
Product(k) ==
    IF k = 0 THEN << <<>> >>
    ELSE LET rest == Product(k - 1)
         IN [i \in 1..(2 * Len(rest)) |->
                IF i <= Len(rest) THEN <<1>> \o rest[i]
                ELSE <<0>> \o rest[i - Len(rest)]]

\* Mutant of LiaisonPositions: every flagged position takes the first item
\* of the combination.
LiaisonPositionsFirstItem(positions, combination) ==
    [p \in 1..Len(positions) |->
        IF positions[p] # 0 THEN combination[1] ELSE 0]

\* The vector generate_liaison_positions builds from one combination.
LiaisonPositions(positions, combination) ==
    [p \in 1..Len(positions) |->
        IF positions[p] # 0
        THEN combination[Cardinality({q \in 1..p : positions[q] # 0})]
        ELSE 0]

PositionsList(positions, combinations) ==
    [c \in 1..Len(combinations) |-> LiaisonPositions(positions, combinations[c])]

\* The list of the vectors generate_liaison_positions yields, in order.
generate_liaison_positions(syllables, liaison) ==
    PositionsList(DefaultPositions(syllables, liaison),
                  Product(Sum(DefaultPositions(syllables, liaison))))

\* The iterables of the three outer loops of generate_phonological_groups.
AlternativeSyllabifications == <<TRUE, FALSE>>

Liaisons == << <<"synalepha">>, <<"sinaeresis">>,
               <<"sinaeresis", "synalepha">>, <<"synalepha", "sinaeresis">> >>

BreakageFuncs == <<"break_on_h", "None">>

\* The generator's frame: where it is suspended, by the (1-based) index of
\* each loop's current item; i2 is 0 in a one-kind order.
CursorCreated ==
    [state |-> "created", alt_i |-> 0, liaison_i |-> 0, break_i |-> 0,
     i1 |-> 0, i2 |-> 0]

CursorSyllables(toks, c) ==
    get_syllables_word_end(get_words(toks, AlternativeSyllabifications[c.alt_i]))

FirstOf(c) ==
    [c EXCEPT !.state = "suspended", !.i1 = 1,
              !.i2 = IF Len(Liaisons[c.liaison_i]) = 1 THEN 0 ELSE 1]

\* Resume the generator: the frame at its next yield, or exhausted.  n1 and
\* n2 are the numbers of items of the loops over liaison_positions_1 and
\* liaison_positions_2 where the frame c is.
ResumeIn(c, n1, n2) ==
    IF c.state = "created"
    THEN FirstOf([c EXCEPT !.alt_i = 1, !.liaison_i = 1, !.break_i = 1])
    ELSE IF Len(Liaisons[c.liaison_i]) = 2 /\ c.i2 < n2
    THEN [c EXCEPT !.i2 = @ + 1]
    ELSE IF c.i1 < n1
    THEN [FirstOf(c) EXCEPT !.i1 = c.i1 + 1]
    ELSE IF c.break_i < Len(BreakageFuncs)
    THEN FirstOf([c EXCEPT !.break_i = @ + 1])
    ELSE IF c.liaison_i < Len(Liaisons)
    THEN FirstOf([c EXCEPT !.liaison_i = @ + 1, !.break_i = 1])
    ELSE IF c.alt_i < Len(AlternativeSyllabifications)
    THEN FirstOf([c EXCEPT !.alt_i = @ + 1, !.liaison_i = 1, !.break_i = 1])
    ELSE [c EXCEPT !.state = "exhausted"]

\* Number of vectors generate_liaison_positions yields for the k-th kind of
\* the order the frame c is in (0 when the order has no k-th kind).
CountIn(syllables, c, k) ==
    IF c.state = "created" \/ k > Len(Liaisons[c.liaison_i]) THEN 0
    ELSE Len(generate_liaison_positions(syllables, Liaisons[c.liaison_i][k]))

ResumeWith(syllables, c) ==
    ResumeIn(c, CountIn(syllables, c, 1), CountIn(syllables, c, 2))

Resume(toks, c) ==
    ResumeWith(IF c.state = "created" THEN <<>> ELSE CursorSyllables(toks, c), c)

\* The second reduction of a two-kind order over what the first returned.
SecondReduction(groups, syllables, liaison_type, ignore_synalepha_h, i2) ==
    IF groups.exc # "none" THEN groups
    ELSE get_phonological_groups(
             groups.groups, liaison_type, ignore_synalepha_h,
             generate_liaison_positions(syllables, liaison_type)[i2])

CandidateOf(syllables, liaison, ignore_synalepha_h, i1, i2) ==
    IF Len(liaison) = 1
    THEN get_phonological_groups(
             syllables, liaison[1], ignore_synalepha_h,
             generate_liaison_positions(syllables, liaison[1])[i1])
    ELSE SecondReduction(
             get_phonological_groups(
                 syllables, liaison[1], ignore_synalepha_h,
                 generate_liaison_positions(syllables, liaison[1])[i1]),
             syllables, liaison[2], ignore_synalepha_h, i2)

\* What the generator computes on the way to the yield at frame c:
\* [exc, groups, ...] as get_phonological_groups returns it.
Candidate(toks, c) ==
    CandidateOf(CursorSyllables(toks, c), Liaisons[c.liaison_i],
                BreakageFuncs[c.break_i], c.i1, c.i2)

-----------------------------------------------------------------------------
(* Inputs. *)

Formats == {"pattern", "binary", "indexed"}

Tags ==
    { NoTag,
      [Case |-> "Nom", PronType |-> "Prs"],
      [Definite |-> "Ind", PronType |-> "Art"],
      [Definite |-> "Def", PronType |-> "Art"],
      [PronType |-> "Dem"],
      [PronType |-> "Ind"],
      [PronType |-> "Int"],
      [PronType |-> "Rel"],
      [Poss |-> "Yes", PronType |-> "Prs"],
      [Poss |-> "Yes"] }

PosTags ==
    {"ADJ", "ADP", "ADV", "AUX", "CCONJ", "DET", "INTJ", "NOUN", "NUM",
     "PRON", "PROPN", "SCONJ", "VERB", ""}

\* Syllabifications (default, registered alternative) of the words the
\* stress assigner is studied on.
StressSyllabifications ==
    { << << <<"l","a">> >>, <<>> >>,                        \* la
      << << <<"L","a">> >>, <<>> >>,                        \* La
      << << <<"a">> >>, <<>> >>,                            \* a
      << << <<"e","n">> >>, <<>> >>,                        \* en
      << << <<"s","o","l">> >>, <<>> >>,                    \* sol
      << << <<"e'","l">> >>, <<>> >>,                       \* el (accented)
      << << <<"m","i">> >>, <<>> >>,                        \* mi
      << << <<"m","i'">>, <<"o">> >>,
         << <<"m","i'","o">> >> >>,                         \* mio
      << << <<"a">>, <<"m","i">>, <<"g","a">> >>, <<>> >>,  \* amiga
      << << <<"h","e'">>, <<"r","o">>, <<"e">> >>, <<>> >>, \* heroe
      << << <<"e","s">>, <<"t","a'">> >>, <<>> >>,          \* esta
      << << <<"a">>, <<"m","o","r">> >>, <<>> >>,           \* amor
      << << <<"j","o">>, <<"v","e","n">> >>, <<>> >>,       \* joven
      << << <<"l","u">>, <<"n","e","s">> >>, <<>> >>,       \* lunes
      << << <<"n","u","e","s">>, <<"t","r","o">> >>, <<>> >>, \* nuestro
      << << <<"s","u","a">>, <<"v","e">> >>,
         << <<"s","u">>, <<"a">>, <<"v","e">> >> >> }       \* suave

StressWords ==
    { Word(w[1], w[2], pos, tag) :
        w \in StressSyllabifications, pos \in PosTags, tag \in Tags }

\* The tokens the lines are made of.
LineTokens ==
    { Word(<< <<"l","a">> >>, <<>>, "DET", [Definite |-> "Def", PronType |-> "Art"]),
      Word(<< <<"a">> >>, <<>>, "ADP", NoTag),
      Word(<< <<"h","e'">>, <<"r","o">>, <<"e">> >>, <<>>, "NOUN", NoTag),
      Word(<< <<"r","i'">>, <<"o">> >>, <<>>, "NOUN", NoTag),
      Word(<< <<"y","a">> >>, <<>>, "ADV", NoTag),
      Word(<< <<"a">>, <<"m","o'">> >>, <<>>, "VERB", NoTag),
      Word(<< <<"o">>, <<"i'">>, <<"a">> >>, <<>>, "VERB", NoTag),
      Word(<< <<"s","u","a">>, <<"v","e">> >>,
           << <<"s","u">>, <<"a">>, <<"v","e">> >>, "ADJ", NoTag),
      Symbol(<<",">>) }

Lines == UNION { [1..n -> LineTokens] : n \in 1..MaxTokens }

\* The tokens of the lines get_words is studied on: words that end or begin
\* with "y", with "h", with a vowel or with a consonant, and a symbol.
WordLineTokens ==
    { Word(<< <<"l","a">> >>, <<>>, "DET", [Definite |-> "Def", PronType |-> "Art"]),
      Word(<< <<"y">> >>, <<>>, "CCONJ", NoTag),
      Word(<< <<"h","o","y">> >>, <<>>, "ADV", NoTag),
      Word(<< <<"Y","a">> >>, <<>>, "ADV", NoTag),
      Word(<< <<"h","i","e">>, <<"l","o">> >>, <<>>, "NOUN", NoTag),
      Word(<< <<"s","o","l">> >>, <<>>, "NOUN", NoTag),
      Word(<< <<"a">>, <<"m","i">>, <<"g","a">> >>, <<>>, "NOUN", NoTag),
      Symbol(<<",">>) }

WordLines == UNION { [1..n -> WordLineTokens] : n \in 0..MaxWords }

\* The tokens of the phrases the reducer is given eligibility vectors on.
PhraseTokens ==
    { Word(<< <<"l","a">> >>, <<>>, "DET", [Definite |-> "Def", PronType |-> "Art"]),
      Word(<< <<"a">> >>, <<>>, "ADP", NoTag),
      Word(<< <<"h","e'">>, <<"r","o">>, <<"e">> >>, <<>>, "NOUN", NoTag),
      Word(<< <<"r","i'">>, <<"o">> >>, <<>>, "NOUN", NoTag),
      Word(<< <<"o">>, <<"i'">>, <<"a">> >>, <<>>, "VERB", NoTag) }

Phrases == UNION { [1..n -> PhraseTokens] : n \in 1..MaxPhrase }

\* Every eligibility vector of the length of syllables.
Vectors(syllables) == [1..Len(syllables) -> {0, 1}]

StructureLengths == { <<>> } \cup { <<t>> : t \in 1..MaxTarget }

LiaisonTypes == {"synalepha", "sinaeresis"}

GroupSeqs ==
    UNION { [1..n -> { [syllable |-> <<"a">>, is_stressed |-> b] :
                          b \in BOOLEAN }] : n \in 0..MaxGroups }

StressSeqs == UNION { [1..n -> BOOLEAN] : n \in 0..(MaxGroups + 1) }

-----------------------------------------------------------------------------
(* get_scansion on one line. *)

NoCall == [fn |-> "none"]

NoLine == [tokens |-> <<>>]

Idle ==
    /\ tokens = <<>>
    /\ structure_length = <<>>
    /\ rhythm_format = "pattern"
    /\ line = NoLine
    /\ cursor = CursorCreated
    /\ yielded = 0
    /\ exc = "none"

Init ==
    /\ pc = "start"
    /\ call = NoCall
    /\ ret = NoCall
    /\ tokens \in Lines
    /\ structure_length = <<>>
    /\ rhythm_format = "pattern"
    /\ line = NoLine
    /\ cursor = CursorCreated
    /\ yielded = 0
    /\ exc = "none"

\* The natural scansion of the line's syllables: [exc, groups].
Outer(inner) ==
    IF inner.exc # "none" THEN inner
    ELSE get_phonological_groups_default(inner.groups, "synalepha", "None")

NaturalGroups(syllables) ==
    Outer(get_phonological_groups_default(syllables, "sinaeresis", "None"))

\* [exc, rhythm] of the groups a reduction returned.
RhythmOfGroups(phonological_groups, fmt) ==
    IF phonological_groups.exc # "none"
    THEN [exc |-> phonological_groups.exc]
    ELSE get_rhythmical_pattern(phonological_groups.groups, fmt)

\* get_scansion up to the end of its loop over the lines: the words, the
\* phonological groups and the rhythm of the line.  The arguments are
\* rhythm_format and the expected length of the line, which is
\* rhythmical_lengths[idx] or comes from the structure found by the rhyme
\* analysis.
Scan(lengths, fmt) ==
    /\ pc = "start"
    /\ call = NoCall
    /\ structure_length' = lengths
    /\ rhythm_format' = fmt
    /\ \E words \in {get_words(tokens, TRUE)} :
       \E phonological_groups \in {NaturalGroups(get_syllables_word_end(words))} :
       \E rhythm \in {RhythmOfGroups(phonological_groups, fmt)} :
          IF rhythm.exc # "none"
          THEN /\ pc' = "raised"
               /\ exc' = rhythm.exc
               /\ line' = [tokens |-> MarkedWordEnds(words)]
          ELSE /\ pc' = "scanned"
               /\ exc' = "none"
               /\ line' = [tokens |-> MarkedWordEnds(words),
                           phonological_groups |-> phonological_groups.groups,
                           rhythm |-> rhythm.rhythm]
    /\ UNCHANGED <<call, ret, tokens, cursor, yielded>>

\* The test that decides whether the candidates are searched.
NeedsSearch ==
    /\ structure_length # <<>>
    /\ line.rhythm.length < structure_length[1]

Driver ==
    /\ pc = "scanned"
    /\ IF NeedsSearch
       THEN /\ pc' = "searching"
            /\ cursor' = CursorCreated
       ELSE /\ pc' = "done"
            /\ cursor' = cursor
    /\ UNCHANGED <<call, ret, tokens, structure_length, rhythm_format, line,
                   yielded, exc>>

\* One iteration of `for candidate in candidates`.
NextCandidate ==
    /\ pc = "searching"
    /\ \E c \in {Resume(tokens, cursor)} :
       /\ cursor' = c
       /\ IF c.state = "exhausted"
          THEN /\ pc' = "done"
               /\ UNCHANGED <<line, yielded, exc>>
          ELSE \E candidate \in {Candidate(tokens, c)} :
               \E rhythm \in {RhythmOfGroups(candidate, rhythm_format)} :
                  /\ yielded' = yielded + 1
                  /\ IF rhythm.exc # "none"
                     THEN /\ pc' = "raised"
                          /\ exc' = rhythm.exc
                          /\ line' = line
                     ELSE IF rhythm.rhythm.length = structure_length[1]
                     THEN /\ pc' = "done"
                          /\ exc' = exc
                          /\ line' = [line EXCEPT
                                 !.phonological_groups = candidate.groups,
                                 !.rhythm = rhythm.rhythm]
                     ELSE /\ pc' = "searching"
                          /\ exc' = exc
                          /\ line' = line
    /\ UNCHANGED <<call, ret, tokens, structure_length, rhythm_format>>

\* get_phonological_groups on the syllables of the line, with the default
\* eligibility.
ReduceCall(alt, liaison_type, breakage_func) ==
    /\ pc = "start"
    /\ call = NoCall
    /\ \E word_syllables \in {get_syllables_word_end(get_words(tokens, alt))} :
          /\ call' = [fn |-> "get_phonological_groups",
                      word_syllables |-> word_syllables,
                      liaison_type |-> liaison_type,
                      breakage_func |-> breakage_func,
                      previous |-> "none"]
          /\ ret' = get_phonological_groups_default(word_syllables,
                                                    liaison_type, breakage_func)
    /\ pc' = "returned"
    /\ UNCHANGED <<tokens, structure_length, rhythm_format, line, cursor,
                   yielded, exc>>

\* get_phonological_groups on the groups a first call returned.
ReduceAgain(liaison_type) ==
    /\ pc = "returned"
    /\ call.fn = "get_phonological_groups"
    /\ call.previous = "none"
    /\ ret.exc = "none"
    /\ call' = [call EXCEPT !.word_syllables = ret.groups,
                            !.liaison_type = liaison_type,
                            !.previous = call.liaison_type]
    /\ ret' = get_phonological_groups_default(ret.groups, liaison_type,
                                              call.breakage_func)
    /\ pc' = "returned"
    /\ UNCHANGED <<tokens, structure_length, rhythm_format, line, cursor,
                   yielded, exc>>

Next ==
    \/ \E lengths \in StructureLengths, fmt \in Formats : Scan(lengths, fmt)
    \/ Driver
    \/ NextCandidate
    \/ \E alt \in BOOLEAN, liaison_type \in LiaisonTypes,
          breakage_func \in {"break_on_h", "None"} :
          ReduceCall(alt, liaison_type, breakage_func)
    \/ \E liaison_type \in LiaisonTypes : ReduceAgain(liaison_type)

Spec == Init /\ [][Next]_vars

-----------------------------------------------------------------------------
(* The stress assigner on one word. *)

InitStress ==
    /\ pc = "start"
    /\ \E word \in StressWords, alt \in BOOLEAN :
          call = [fn |-> "get_word_stress", word |-> word, alt |-> alt]
    /\ ret = NoCall
    /\ Idle

GetWordStress ==
    /\ pc = "start"
    /\ call.fn = "get_word_stress"
    /\ ret' = get_word_stress(call.word, call.word.pos, call.word.tag, call.alt)
    /\ pc' = "returned"
    /\ UNCHANGED <<call, tokens, structure_length, rhythm_format, line, cursor,
                   yielded, exc>>

NextStress == GetWordStress

SpecStress == InitStress /\ [][NextStress]_vars

-----------------------------------------------------------------------------
(* The rhythm deriver on one sequence of groups or of slots. *)

InitRhythm ==
    /\ pc = "start"
    /\ \/ \E groups \in GroupSeqs, fmt \in Formats :
             call = [fn |-> "get_rhythmical_pattern",
                     phonological_groups |-> groups, fmt |-> fmt]
       \/ \E stresses \in StressSeqs, fmt \in Formats :
             call = [fn |-> "format_stress", stresses |-> stresses, fmt |-> fmt]
    /\ ret = NoCall
    /\ Idle

\* get_rhythmical_pattern, its result joined with what get_stresses gave it.
GetRhythmicalPattern ==
    /\ pc = "start"
    /\ call.fn = "get_rhythmical_pattern"
    /\ ret' = [stresses |-> get_stresses(call.phonological_groups),
               pattern |-> get_rhythmical_pattern(call.phonological_groups,
                                                  call.fmt)]
    /\ pc' = "returned"
    /\ UNCHANGED <<call, tokens, structure_length, rhythm_format, line, cursor,
                   yielded, exc>>

\* format_stress(stresses, rhythm_format): no separator given.
FormatStress ==
    /\ pc = "start"
    /\ call.fn = "format_stress"
    /\ ret' = [stress |-> format_stress(call.stresses, call.fmt,
                                        DefaultIndexedSeparator)]
    /\ pc' = "returned"
    /\ UNCHANGED <<call, tokens, structure_length, rhythm_format, line, cursor,
                   yielded, exc>>

NextRhythm == GetRhythmicalPattern \/ FormatStress

SpecRhythm == InitRhythm /\ [][NextRhythm]_vars

-----------------------------------------------------------------------------
(* get_words on one line of tokens. *)

InitWords ==
    /\ pc = "start"
    /\ \E word_list \in WordLines, alt \in BOOLEAN :
          call = [fn |-> "get_words", word_list |-> word_list, alt |-> alt]
    /\ ret = NoCall
    /\ Idle

GetWords ==
    /\ pc = "start"
    /\ call.fn = "get_words"
    /\ ret' = [words |-> get_words(call.word_list, call.alt)]
    /\ pc' = "returned"
    /\ UNCHANGED <<call, tokens, structure_length, rhythm_format, line, cursor,
                   yielded, exc>>

NextWords == GetWords

SpecWords == InitWords /\ [][NextWords]_vars

-----------------------------------------------------------------------------
(* The reducer and the generator of eligibility vectors on the syllables *)
(* of a phrase.                                                           *)

InitReducer ==
    /\ pc = "start"
    /\ call = NoCall
    /\ ret = NoCall
    /\ tokens \in Phrases
    /\ structure_length = <<>>
    /\ rhythm_format = "pattern"
    /\ line = NoLine
    /\ cursor = CursorCreated
    /\ yielded = 0
    /\ exc = "none"

\* get_phonological_groups with liaison_positions supplied by the caller.
ReduceWith(liaison_type, breakage_func, liaison_positions) ==
    /\ pc = "start"
    /\ call = NoCall
    /\ call' = [fn |-> "get_phonological_groups",
                word_syllables |-> get_syllables_word_end(get_words(tokens, TRUE)),
                liaison_type |-> liaison_type,
                breakage_func |-> breakage_func,
                liaison_positions |-> liaison_positions]
    /\ ret' = [out |-> get_phonological_groups(
                           get_syllables_word_end(get_words(tokens, TRUE)),
                           liaison_type, breakage_func, liaison_positions),
               eligible |-> EligibleCounts(
                                get_syllables_word_end(get_words(tokens, TRUE)),
                                liaison_positions, liaison_type, breakage_func,
                                ScanStart)]
    /\ pc' = "returned"
    /\ UNCHANGED <<tokens, structure_length, rhythm_format, line, cursor,
                   yielded, exc>>

\* list(generate_liaison_positions(syllables, liaison))
GenerateLiaisonPositions(liaison) ==
    /\ pc = "start"
    /\ call = NoCall
    /\ call' = [fn |-> "generate_liaison_positions",
                syllables |-> get_syllables_word_end(get_words(tokens, TRUE)),
                liaison |-> liaison]
    /\ ret' = [positions |-> generate_liaison_positions(
                                 get_syllables_word_end(get_words(tokens, TRUE)),
                                 liaison)]
    /\ pc' = "returned"
    /\ UNCHANGED <<tokens, structure_length, rhythm_format, line, cursor,
                   yielded, exc>>

NextReducer ==
    \/ \E liaison_type \in LiaisonTypes, breakage_func \in {"break_on_h", "None"},
          liaison_positions \in
              Vectors(get_syllables_word_end(get_words(tokens, TRUE))) :
          ReduceWith(liaison_type, breakage_func, liaison_positions)
    \/ \E liaison \in LiaisonTypes : GenerateLiaisonPositions(liaison)

SpecReducer == InitReducer /\ [][NextReducer]_vars

-----------------------------------------------------------------------------
(* Claims about the rhythm deriver (SpecRhythm). *)

RhythmReturned == pc = "returned" /\ call.fn = "get_rhythmical_pattern"

StressedAt(groups) == {i \in 1..Len(groups) : groups[i].is_stressed}

LastStressed(groups) ==
    CHOOSE i \in StressedAt(groups) : \A j \in StressedAt(groups) : j <= i

\* C2: for n groups of which at least one is stressed, get_stresses returns
\* n+1 slots when the last group is stressed (an unstressed slot appended),
\* n slots when the last stressed group is the penultimate one and n-1 slots
\* when it is further from the end (the final slot dropped); the slots that
\* remain are the groups' stress values in order, and the length
\* get_rhythmical_pattern reports is the number of slots.
C2_SlotCount ==
    (RhythmReturned /\ StressedAt(call.phonological_groups) # {}) =>
        LET groups == call.phonological_groups
            n == Len(groups)
            last == LastStressed(groups)
            slots == ret.stresses.stresses
        IN /\ ret.stresses.exc = "none"
           /\ ret.pattern.exc = "none"
           /\ (last = n => Len(slots) = n + 1 /\ slots[n + 1] = FALSE)
           /\ (last = n - 1 => Len(slots) = n)
           /\ (last <= n - 2 => Len(slots) = n - 1)
           /\ \A i \in 1..n : i <= Len(slots) => slots[i] = groups[i].is_stressed
           /\ ret.pattern.rhythm.length = Len(slots)

\* A sequence whose last stressed group is three or more from the end was
\* given and its final slot was dropped.
C2_Witness ==
    /\ RhythmReturned
    /\ StressedAt(call.phonological_groups) # {}
    /\ LastStressed(call.phonological_groups) <= Len(call.phonological_groups) - 2
    /\ Len(ret.stresses.stresses) = Len(call.phonological_groups) - 1

\* The 1-based indices of the stressed slots, ascending, joined by commas.
RECURSIVE CommaIndices(_, _)
CommaIndices(stresses, i) ==
    IF i > Len(stresses) THEN <<>>
    ELSE IF ~stresses[i] THEN CommaIndices(stresses, i + 1)
    ELSE IF \E j \in (i + 1)..Len(stresses) : stresses[j]
    THEN Str(i) \o <<",">> \o CommaIndices(stresses, i + 1)
    ELSE Str(i)

\* C3: format_stress with the format "indexed" and no separator argument
\* returns the 1-based indices of the stressed slots, ascending, separated
\* by commas ("2,4" for [false, true, false, true]).
C3_IndexedCommas ==
    (pc = "returned" /\ call.fn = "format_stress" /\ call.fmt = "indexed") =>
        ret.stress = CommaIndices(call.stresses, 1)

-----------------------------------------------------------------------------
(* Claims about the stress assigner (SpecStress). *)

StressReturned == pc = "returned" /\ call.fn = "get_word_stress"

StressedSyllables(word) == {i \in 1..Len(word) : word[i].is_stressed}

\* C4: in the word get_word_stress returns at most one syllable is stressed;
\* stress_position is 0 exactly when none is; and when stress_position is
\* -k, k >= 1, then k is at most the number of syllables and the stressed
\* syllable is the k-th from the end.
C4_OneStress ==
    StressReturned =>
        LET word == ret.word
            n == Len(word)
            k == -ret.stress_position
        IN /\ n >= 1
           /\ k >= 0
           /\ Cardinality(StressedSyllables(word)) <= 1
           /\ (k = 0 <=> StressedSyllables(word) = {})
           /\ (k >= 1 => k <= n /\ StressedSyllables(word) = {n - k + 1})

\* A word of three syllables came back stressed on the third from the end.
C4_Witness ==
    /\ StressReturned
    /\ ret.stress_position = -3
    /\ Len(ret.word) = 3
    /\ ret.word[1].is_stressed

MonosyllableReturned == StressReturned /\ Len(ret.word) = 1

\* The grammatical categories the claim lists as inherently stressed.
ListedCategory(pos, tag) ==
    \/ (pos = "DET" /\ (Get(tag, "Definite", NoValue) \in {"Dem", "Ind"}
                        \/ Get(tag, "PronType", NoValue) \in {"Dem", "Ind"}))
    \/ (pos = "PRON" /\ (Get(tag, "Case", NoValue) = "Nom"
                         \/ Get(tag, "PronType", NoValue) \in {"Prs", "Ind"}))
    \/ (pos = "ADJ" /\ Get(tag, "Poss", NoValue) # "Yes")
    \/ pos \in {"PROPN", "NUM", "NOUN", "VERB", "AUX", "ADV"}
    \/ (pos \in {"PRON", "DET"}
        /\ Get(tag, "PronType", NoValue) \in {"Exc", "Int", "Dem"})

\* C10 as stated: a one-syllable word is unstressed (0) only if its lowercase
\* form is in the unstressed-monosyllable set, is not in the
\* stressed-exception set and its part of speech and morphology match none
\* of the listed categories; in every other case it gets -1.
C10_Original ==
    MonosyllableReturned =>
        /\ ret.stress_position \in {0, -1}
        /\ ret.stress_position = 0 <=>
              /\ Lower(ret.word[1].syllable) \in UNSTRESSED_UNACCENTED_MONOSYLLABLES
              /\ Lower(ret.word[1].syllable) \notin STRESSED_UNACCENTED_MONOSYLLABLES
              /\ ~ListedCategory(call.word.pos, call.word.tag)

\* The parts of speech of function words, and the morphology that stresses
\* a pronoun or determiner all the same.
FunctionWord(pos) == pos \in {"SCONJ", "CCONJ", "DET", "PRON", "ADP"}

StressingMorphology(pos, tag) ==
    \/ (pos = "PRON" /\ (Get(tag, "Case", NoValue) = "Nom"
                         \/ Get(tag, "PronType", NoValue) \in
                                {"Prs", "Ind", "Exc", "Int", "Dem"}))
    \/ (pos = "DET" /\ (Get(tag, "Definite", NoValue) \in {"Dem", "Ind"}
                        \/ Get(tag, "PronType", NoValue) \in
                               {"Ind", "Exc", "Int", "Dem"}))

\* C10 as amended: a one-syllable word gets 0 when its lowercase form is in
\* the unstressed-monosyllable set, whatever its part of speech; a form
\* outside that set gets 0 only when it is not in the stressed-exception
\* set, the word is no stressed possessive pronoun, and its part of speech
\* is that of a function word whose morphology matches none of the stressed
\* pronoun or determiner categories; in every other case it gets -1.
C10_Monosyllable ==
    MonosyllableReturned =>
        /\ ret.stress_position \in {0, -1}
        /\ ret.stress_position = 0 <=>
              \/ Lower(ret.word[1].syllable) \in UNSTRESSED_UNACCENTED_MONOSYLLABLES
              \/ /\ Lower(ret.word[1].syllable) \notin STRESSED_UNACCENTED_MONOSYLLABLES
                 /\ Lower(call.word.text) \notin POSSESSIVE_PRON
                 /\ FunctionWord(call.word.pos)
                 /\ ~StressingMorphology(call.word.pos, call.word.tag)

\* A form of the unstressed-monosyllable set tagged as a noun came back
\* unstressed.
C10_Witness ==
    /\ MonosyllableReturned
    /\ Lower(ret.word[1].syllable) \in UNSTRESSED_UNACCENTED_MONOSYLLABLES
    /\ call.word.pos = "NOUN"
    /\ ret.stress_position = 0

-----------------------------------------------------------------------------
(* Claims about the group reducer (Spec). *)

ReduceReturned == pc = "returned" /\ call.fn = "get_phonological_groups"

Texts(syllables) == [i \in 1..Len(syllables) |-> syllables[i].syllable]

\* groups (a list of texts) cuts syllables (a list of texts) into consecutive
\* runs: the first group is the concatenation of the first k syllables for
\* some k >= 1, and the rest of the groups cut the rest of the syllables.
RECURSIVE IsPartition(_, _)
IsPartition(groups, syllables) ==
    IF groups = <<>> THEN syllables = <<>>
    ELSE \E k \in 1..Len(syllables) :
            /\ Concat(SubSeq(syllables, 1, k)) = Head(groups)
            /\ IsPartition(Tail(groups), SubSeq(syllables, k + 1, Len(syllables)))

\* C5: on the syllables of a line, for either kind and with or without the
\* breakage predicate, get_phonological_groups with the default eligibility
\* returns groups that cut the input into consecutive runs: each group's
\* text is the concatenation of the syllables it fused, and the group texts
\* together are the syllable texts together, in order.
C5_Partition ==
    ReduceReturned =>
        /\ ret.exc = "none"
        /\ IsPartition(Texts(ret.groups), Texts(call.word_syllables))
        /\ Concat(Texts(ret.groups)) = Concat(Texts(call.word_syllables))

\* A reduction under the breakage predicate fused three syllables or more
\* into fewer groups and left at least two groups.
C5_Witness ==
    /\ ReduceReturned
    /\ call.breakage_func = "break_on_h"
    /\ ret.merges >= 2
    /\ Len(ret.groups) >= 2

\* C6: the sequence get_phonological_groups returns is never longer than
\* its input; every merge it made shortened it by exactly one, so that it
\* is as long as the input only when it made no merge.
C6_Shrinks ==
    ReduceReturned =>
        /\ Len(ret.groups) <= Len(call.word_syllables)
        /\ Len(ret.groups) = Len(call.word_syllables) - ret.merges
        /\ (Len(ret.groups) = Len(call.word_syllables) => ret.merges = 0)

\* A reduction made two merges in two passes (a chain).
C6_Witness ==
    /\ ReduceReturned
    /\ ret.merges >= 2
    /\ ret.passes >= 2
    /\ Len(ret.groups) = Len(call.word_syllables) - ret.merges

Flagged(syllables, liaison_type) ==
    {i \in 1..Len(syllables) :
        Get(syllables[i], LiaisonProperty(liaison_type), FALSE)}

\* C7: a sequence none of whose syllables has the kind's flag set is
\* returned unchanged; every group of a finished reduction reports the
\* kind's flag as false; and reducing the result of a reduction again with
\* the same kind returns it unchanged.
C7_Idempotent ==
    ReduceReturned =>
        /\ (Flagged(call.word_syllables, call.liaison_type) = {}
               => ret.exc = "none" /\ ret.groups = call.word_syllables)
        /\ Flagged(ret.groups, call.liaison_type) = {}
        /\ (call.previous = call.liaison_type
               => ret.exc = "none" /\ ret.groups = call.word_syllables)

\* A sequence that a first reduction had shortened by a merge was reduced
\* again with the same kind and came back unchanged.
C7_Witness ==
    /\ ReduceReturned
    /\ call.previous = call.liaison_type
    /\ \E i \in 1..Len(call.word_syllables) :
          IndexKey(call.liaison_type) \in DOMAIN call.word_syllables[i]
    /\ ret.groups = call.word_syllables

-----------------------------------------------------------------------------
(* Claims about get_scansion (Spec). *)

\* C8: the rhythm derivation of the natural scansion completes and returns
\* a rhythm for every line, also for a line without a stressed group and
\* for a line of symbols only.
C8_RhythmReturned == ~(pc = "raised" /\ yielded = 0)


\* The choices that identify one candidate of generate_phonological_groups:
\* the syllabification, the liaison order, the breakage predicate and the
\* on/off assignment of each kind of the order (v2 is <<>> in a one-kind
\* order).
LineSyllables(toks, alt) == get_syllables_word_end(get_words(toks, alt))

\* The on/off assignments over the positions flagged for the kind.
Assignments(syllables, liaison_type) ==
    { [p \in 1..Len(syllables) |-> IF p \in on THEN 1 ELSE 0] :
        on \in SUBSET Flagged(syllables, liaison_type) }

Descriptors(toks) ==
    UNION { UNION { UNION {
        { [alt |-> alt, order |-> order, brk |-> brk, v1 |-> v1, v2 |-> v2] :
            v1 \in Assignments(LineSyllables(toks, alt), order[1]),
            v2 \in IF Len(order) = 1 THEN { <<>> }
                   ELSE Assignments(LineSyllables(toks, alt), order[2]) }
        : brk \in {"break_on_h", "None"} }
        : order \in { <<"synalepha">>, <<"sinaeresis">>,
                      <<"sinaeresis", "synalepha">>,
                      <<"synalepha", "sinaeresis">> } }
        : alt \in BOOLEAN }

\* The candidate of the choices d: [exc, groups, ...].
DescGroups(toks, d) ==
    LET syllables == LineSyllables(toks, d.alt)
        first == get_phonological_groups(syllables, d.order[1], d.brk, d.v1)
    IN IF Len(d.order) = 1 \/ first.exc # "none" THEN first
       ELSE get_phonological_groups(first.groups, d.order[2], d.brk, d.v2)

\* The rhythm length of the candidate of d, -1 if computing it raises.
DescLength(toks, d) ==
    LET r == RhythmOfGroups(DescGroups(toks, d), "pattern")
    IN IF r.exc # "none" THEN -1 ELSE r.rhythm.length

\* The order the claim gives the candidates.
AltKey(alt) == IF alt THEN 1 ELSE 2

OrderKey(order) ==
    CASE order = <<"synalepha">> -> 1
      [] order = <<"sinaeresis">> -> 2
      [] order = <<"sinaeresis", "synalepha">> -> 3
      [] order = <<"synalepha", "sinaeresis">> -> 4

BrkKey(brk) == IF brk = "break_on_h" THEN 1 ELSE 2

\* v comes before w: at the first position where they differ, v is on.
VecBefore(v, w) ==
    \E p \in 1..Len(v) :
        /\ v[p] = 1
        /\ w[p] = 0
        /\ \A q \in 1..(p - 1) : v[q] = w[q]

Before(d, e) ==
    \/ AltKey(d.alt) < AltKey(e.alt)
    \/ /\ d.alt = e.alt
       /\ \/ OrderKey(d.order) < OrderKey(e.order)
          \/ /\ d.order = e.order
             /\ \/ BrkKey(d.brk) < BrkKey(e.brk)
                \/ /\ d.brk = e.brk
                   /\ \/ VecBefore(d.v1, e.v1)
                      \/ d.v1 = e.v1 /\ VecBefore(d.v2, e.v2)

\* The choices of the candidate the generator is suspended at.
CursorDescriptor ==
    LET syllables == CursorSyllables(tokens, cursor)
        order == Liaisons[cursor.liaison_i]
    IN [alt |-> AlternativeSyllabifications[cursor.alt_i],
        order |-> order,
        brk |-> BreakageFuncs[cursor.break_i],
        v1 |-> generate_liaison_positions(syllables, order[1])[cursor.i1],
        v2 |-> IF Len(order) = 1 THEN <<>>
               ELSE generate_liaison_positions(syllables, order[2])[cursor.i2]]

\* The natural scansion of the line: [exc, groups] and [exc, rhythm].
NaturalOf(toks) == NaturalGroups(LineSyllables(toks, TRUE))

NaturalRhythm(toks, fmt) == RhythmOfGroups(NaturalOf(toks), fmt)

Target == structure_length[1]

\* C1 as stated: when the line has a target length T and its natural rhythm
\* length differs from T, then if some candidate of the enumeration has
\* rhythm length T the line ends with rhythm length T and that candidate's
\* groups, and if none has, the line keeps the groups and the rhythm of the
\* natural scansion.
C1_Original ==
    (/\ pc = "done"
     /\ structure_length # <<>>
     /\ NaturalRhythm(tokens, rhythm_format).rhythm.length # Target) =>
        IF \E d \in Descriptors(tokens) : DescLength(tokens, d) = Target
        THEN /\ line.rhythm.length = Target
             /\ \E d \in Descriptors(tokens) :
                   /\ DescLength(tokens, d) = Target
                   /\ line.phonological_groups = DescGroups(tokens, d).groups
        ELSE /\ line.phonological_groups = NaturalOf(tokens).groups
             /\ line.rhythm = NaturalRhythm(tokens, rhythm_format).rhythm

\* C9: the candidates come in the nested order alternative syllabification
\* on before off, then synalepha-only, sinaeresis-only,
\* sinaeresis-then-synalepha, synalepha-then-sinaeresis, then the breakage
\* predicate active before inactive, then the first kind's assignments from
\* all-on, the second kind's varying fastest: the candidate the generator is
\* suspended at is the yielded-th of that order.  When the driver has
\* substituted a candidate it is the one it requested last, it has the
\* target length and no candidate before it in the order has; when the
\* generator is exhausted every candidate was requested.
C9_Order ==
    /\ (pc \in {"searching", "done", "raised"} /\ cursor.state = "suspended") =>
          \E d \in {CursorDescriptor} : \E all \in {Descriptors(tokens)} :
             /\ d \in all
             /\ yielded = Cardinality({ e \in all : e = d \/ Before(e, d) })
             /\ (pc = "done" =>
                   /\ line.phonological_groups = DescGroups(tokens, d).groups
                   /\ line.rhythm.length = Target
                   /\ \A e \in all :
                          Before(e, d) => DescLength(tokens, e) # Target)
    /\ (pc = "done" /\ cursor.state = "exhausted") =>
          /\ yielded = Cardinality(Descriptors(tokens))
          /\ line.phonological_groups = NaturalOf(tokens).groups

\* The driver substituted a candidate that was not the first requested,
\* while a later candidate of the order has the target length too.
C9_Witness ==
    /\ pc = "done"
    /\ cursor.state = "suspended"
    /\ yielded >= 2
    /\ \E d \in {CursorDescriptor} : \E e \in Descriptors(tokens) :
          /\ Before(d, e)
          /\ DescLength(tokens, e) = Target
          /\ DescGroups(tokens, e).groups # line.phonological_groups

-----------------------------------------------------------------------------
(* Claims about get_words (SpecWords). *)

WordsReturned == pc = "returned" /\ call.fn = "get_words"

\* The positions of the words (not the symbols) of a list get_words returned.
WordsAt(words) == {i \in 1..Len(words) : "word" \in DOMAIN words[i]}

\* The nearest word before position j, 0 if there is none.
EarlierWord(words, j) ==
    LET before == {i \in WordsAt(words) : i < j}
    IN IF before = {} THEN 0 ELSE CHOOSE i \in before : \A k \in before : k <= i

Vowels == AccentedChars \cup UnaccentedVowelChars

\* The eligibility of the boundary between two syllable texts, as the claim
\* words it.
SynalephaEligible(first, second) ==
    /\ Last(first) \in Vowels \cup {"y", "Y"}
    /\ second[1] \in Vowels \cup {"h", "H", "y", "Y"}
    /\ ~(second[1] \in {"y", "Y"} /\ Len(second) > 1 /\ second[2] \in Vowels)

HasSynalepha(syllable) == Get(syllable, "has_synalepha", FALSE)

\* C11: in the list get_words returns, for every word that has an earlier
\* word (symbols between them not counting), the last syllable of the
\* nearest earlier word has has_synalepha = true exactly when its final
\* character is a vowel or "y", the new word's first syllable begins with a
\* vowel, "h" or "y" and does not begin with "y" followed by a vowel; the
\* last syllable of the last word is never flagged.
C11_Synalepha ==
    WordsReturned =>
        LET words == ret.words
        IN /\ \A j \in WordsAt(words) :
                 EarlierWord(words, j) # 0 =>
                    (HasSynalepha(Last(words[EarlierWord(words, j)].word))
                       <=> SynalephaEligible(
                               Last(words[EarlierWord(words, j)].word).syllable,
                               words[j].word[1].syllable))
           /\ \A j \in WordsAt(words) :
                 (\A k \in WordsAt(words) : k <= j) =>
                    "has_synalepha" \notin DOMAIN Last(words[j].word)

\* A word ending in "y" was flagged across a symbol by the word after it.
C11_Witness ==
    /\ WordsReturned
    /\ Len(ret.words) = 3
    /\ "word" \in DOMAIN ret.words[1]
    /\ "symbol" \in DOMAIN ret.words[2]
    /\ "word" \in DOMAIN ret.words[3]
    /\ Last(Last(ret.words[1].word).syllable) = "y"
    /\ HasSynalepha(Last(ret.words[1].word))

-----------------------------------------------------------------------------
(* Claims about the reducer under caller-supplied eligibility (SpecReducer). *)

ReducedWith == pc = "returned" /\ call.fn = "get_phonological_groups"

\* Each test of the loop after the first finds fewer eligible positions
\* than the test before it.
StrictlyFewer(counts) ==
    \A i \in 1..(Len(counts) - 1) : counts[i + 1] < counts[i]

\* C12 as stated: for every syllable sequence of length n, every eligibility
\* vector of that length and either breakage setting,
\* get_phonological_groups comes to its return; every scan that starts with
\* an eligible position ends with strictly fewer, down to none; and the
\* loop makes at most as many passes as positions were eligible at first,
\* hence at most n.
C12_Original ==
    ReducedWith =>
        /\ ret.out.exc = "none"
        /\ StrictlyFewer(ret.eligible)
        /\ Last(ret.eligible) = 0
        /\ Len(ret.eligible) = ret.out.passes + 1
        /\ ret.out.passes <= Sum(call.liaison_positions)
        /\ ret.out.passes <= Len(call.word_syllables)

\* The same for the vectors whose last position is off: the only ones the
\* scan can serve, as the last syllable has no successor to merge with.
C12_LastOff ==
    (ReducedWith /\ Last(call.liaison_positions) = 0) =>
        /\ ret.out.exc = "none"
        /\ StrictlyFewer(ret.eligible)
        /\ Last(ret.eligible) = 0
        /\ Len(ret.eligible) = ret.out.passes + 1
        /\ ret.out.passes <= Sum(call.liaison_positions)
        /\ ret.out.passes <= Len(call.word_syllables)

-----------------------------------------------------------------------------
(* Claims about the groups of a reduction and of the candidates (Spec). *)

\* Number of characters of the first k texts of a list of syllables.
PrefixLen(syllables, k) == Len(Concat(SubSeq(Texts(syllables), 1, k)))

\* The position of the last of the syllables fused into group g (0 for
\* g = 0), when groups cuts syllables into consecutive runs.
RunEnd(groups, syllables, g) ==
    CHOOSE k \in 0..Len(syllables) :
        PrefixLen(syllables, k) = PrefixLen(groups, g)

\* The positions of the syllables fused into group g.
Run(groups, syllables, g) ==
    (RunEnd(groups, syllables, g - 1) + 1)..RunEnd(groups, syllables, g)

IsWordEnd(syllable) == Get(syllable, "is_word_end", FALSE)

\* C13: after a reduction with the default eligibility, chains included,
\* each group is stressed exactly when one of the syllables fused into it
\* is, and is a word end exactly when the last syllable fused into it is; a
\* syllable that was not merged keeps its stress and word-end values.
C13_StressAndWordEnd ==
    ReduceReturned =>
        /\ ret.exc = "none"
        /\ IsPartition(Texts(ret.groups), Texts(call.word_syllables))
        /\ \A g \in 1..Len(ret.groups) :
              \E run \in {Run(ret.groups, call.word_syllables, g)} :
              \E hi \in {RunEnd(ret.groups, call.word_syllables, g)} :
                 /\ ret.groups[g].is_stressed
                       <=> \E i \in run : call.word_syllables[i].is_stressed
                 /\ IsWordEnd(ret.groups[g])
                       <=> IsWordEnd(call.word_syllables[hi])
                 /\ Cardinality(run) = 1 =>
                       /\ ret.groups[g].is_stressed
                             = call.word_syllables[hi].is_stressed
                       /\ ("is_word_end" \in DOMAIN ret.groups[g])
                             = ("is_word_end" \in DOMAIN call.word_syllables[hi])

\* A chain of three syllables or more, merged over two passes, came back as
\* a group that is a word end and is stressed by a syllable that is not its
\* last.
C13_Witness ==
    /\ ReduceReturned
    /\ ret.exc = "none"
    /\ ret.passes >= 2
    /\ \E g \in 1..Len(ret.groups) :
          /\ Cardinality(Run(ret.groups, call.word_syllables, g)) >= 3
          /\ ret.groups[g].is_stressed
          /\ IsWordEnd(ret.groups[g])
          /\ ~call.word_syllables[RunEnd(ret.groups, call.word_syllables, g)].is_stressed

\* The generator is suspended at a yield.
Yielded ==
    /\ pc \in {"searching", "done", "raised"}
    /\ cursor.state = "suspended"

\* The boundary after syllable i is flagged for one of the kinds of order.
FlaggedFor(syllables, i, order) ==
    \E k \in 1..Len(order) :
        Get(syllables[i], LiaisonProperty(order[k]), FALSE)

\* C14 as stated: every candidate generate_phonological_groups yields, in
\* every liaison order and for every on/off assignment, cuts the line's
\* syllables into consecutive runs: its group texts together are the
\* syllable texts together, none twice and none missing, and every merge
\* joins two neighbours whose boundary was flagged for a kind applied.
C14_Original ==
    Yielded =>
        \E candidate \in {Candidate(tokens, cursor)} :
        \E syllables \in {CursorSyllables(tokens, cursor)} :
           /\ candidate.exc = "none"
           /\ Concat(Texts(candidate.groups)) = Concat(Texts(syllables))
           /\ IsPartition(Texts(candidate.groups), Texts(syllables))
           /\ \A g \in 1..Len(candidate.groups) :
                 \A i \in Run(candidate.groups, syllables, g) :
                    i < RunEnd(candidate.groups, syllables, g) =>
                       FlaggedFor(syllables, i, Liaisons[cursor.liaison_i])

\* C15 as stated: in the natural scansion (sinaeresis reduction, then
\* synalepha reduction over its output, no breakage predicate) every word
\* boundary the liaison marker flagged for synalepha lies inside one
\* phonological group, also when the syllable on its left was first fused
\* with its predecessor by sinaeresis.
C15_Original ==
    pc = "scanned" =>
        \E syllables \in {LineSyllables(tokens, TRUE)} :
        \E groups \in {line.phonological_groups} :
           /\ IsPartition(Texts(groups), Texts(syllables))
           /\ \A i \in Flagged(syllables, "synalepha") :
                 \E g \in 1..Len(groups) :
                    {i, i + 1} \subseteq Run(groups, syllables, g)

-----------------------------------------------------------------------------
(* Claims about generate_liaison_positions (SpecReducer). *)

PositionsGenerated == pc = "returned" /\ call.fn = "generate_liaison_positions"

\* C16: for n syllables of which k are flagged for the kind,
\* generate_liaison_positions yields exactly 2^k vectors, pairwise distinct,
\* each of length n and zero at every position that is not flagged, which
\* together are all the on/off assignments of the flagged positions; the
\* first has every flagged position on and the last has every position off
\* (one all-zero vector when k = 0).
C16_Positions ==
    PositionsGenerated =>
        LET n == Len(call.syllables)
            flagged == Flagged(call.syllables, call.liaison)
            k == Cardinality(flagged)
            out == ret.positions
        IN /\ Len(out) = 2 ^ k
           /\ \A i, j \in 1..Len(out) : i # j => out[i] # out[j]
           /\ \A i \in 1..Len(out) :
                 /\ Len(out[i]) = n
                 /\ \A p \in 1..n : out[i][p] \in {0, 1}
                 /\ \A p \in (1..n) \ flagged : out[i][p] = 0
           /\ {out[i] : i \in 1..Len(out)}
                 = Assignments(call.syllables, call.liaison)
           /\ out[1] = [p \in 1..n |-> IF p \in flagged THEN 1 ELSE 0]
           /\ out[Len(out)] = [p \in 1..n |-> 0]

\* The vectors of a sequence with three flagged positions or more were
\* generated: eight or more, from all-on to all-off.
C16_Witness ==
    /\ PositionsGenerated
    /\ Cardinality(Flagged(call.syllables, call.liaison)) >= 3
    /\ Len(ret.positions) >= 8
    /\ ret.positions[1] # ret.positions[Len(ret.positions)]

====
